---- MODULE Spec2Model ----
(***************************************************************************)
(* Model of the pedestrian navigation core of CitySimulator (src/ai.py,    *)
(* src/util.py, src/constants.py, src/world.py):                           *)
(*   - the behaviour tree engine (BehaviourTree, Composite, Decorator),    *)
(*   - the navigation graph (NavigationGraph.generate_graph and the route  *)
(*     search built on util.Heap).                                         *)
(* SpecTree drives a behaviour tree through set_root and tick.             *)
(* SpecGraph runs generate_graph on every small grid.                      *)
(* SpecRoute runs generate_graph and then find_walking_path queries.       *)
(* SpecHeap and SpecRect exercise util.Heap and util.Rect on their own.    *)
(* SpecFollow builds and ticks a HumanFollowPath, SpecWalk ticks a         *)
(* HumanWalkToLocation, SpecRoam runs HumanRoam.init on a generated graph. *)
(***************************************************************************)
EXTENDS Integers, Sequences, FiniteSets, TLC

VARIABLES
    \* ---- behaviour tree (ai.py 1123-1530)
    tree,            \* the task objects: kind, children_tasks / child, configured repeat_times
    root,            \* BehaviourTree.current (= _root)
    children_stack,  \* Composite.children_stack._data, last element = top
    repeat_times,    \* Repeater.repeat_times
    roam_child,      \* HumanRoam.child: the HumanFollowPath built by HumanRoam.init
    crashed,         \* an exception left tick / set_root
    \* ---- observation of the calls made by the latest handler and of activations
    opens,           \* per task: init() calls since its creation or its last end()
    procs,           \* per task: process() calls since its last init()
    ret,             \* per task: value its process() returned in the latest handler
    child_inits,     \* per task: children whose init() was called since the task's last init()
    succ_run,        \* per Repeater: child results seen so far if all were SUCCESS, else -1
    bad_proc,        \* in the latest handler a process() ran on a task with opens # 1
    bad_end,         \* in the latest handler an end() ran on a task with opens = 0
    halted,          \* controller.halt() was called in the latest handler
    calls,           \* the latest handler and the init / end / process calls it made, in order
    \* ---- navigation graph (ai.py 797-1096)
    grid,            \* world terrain layer: tile -> blocktype
    pc,              \* position of the navigation code
    positions,       \* generate_graph: tiles still pending
    rects,           \* generate_graph: regions recorded so far
    graph,           \* NavigationGraph.graph: node -> set of <<other, weight>>
    query,           \* find_walking_path: src, dest, start_node, end_node
    frontier,        \* _find: util.Heap._heap[1 .. _n-1]
    came_from,       \* _find: predecessor map
    costs,           \* _find: cost map
    route,           \* result of the latest find_walking_path
    \* ---- helpers exercised on their own (util.py, ai.py 1452-1489)
    heap,            \* a util.Heap: _heap[1 .. _n-1] and _max
    last_pop,        \* the latest Heap.pop: the value returned and _heap[1 .. _n-1] before it
    cur_rect,        \* a util.Rect
    undo,            \* the latest Rect.expand: the rect before it, direction, delta, rolled back or not
    waypoints,       \* the path given to HumanFollowPath.__init__
    expanded,        \* a HumanFollowPath: _path, _index, the target of its child, what process() did
    walker,          \* a HumanWalkToLocation and the entity it moves
    roamer           \* a HumanRoam.init under way: current tile, sampled goal, child

treeVars == <<tree, root, children_stack, repeat_times, roam_child, crashed,
              opens, procs, ret, child_inits, succ_run,
              bad_proc, bad_end, halted, calls>>
navVars == <<grid, pc, positions, rects, graph, query, frontier, came_from, costs, route>>
unitVars == <<heap, last_pop, cur_rect, undo, waypoints, expanded, walker, roamer>>
vars == <<treeVars, navVars, unitVars>>

-----------------------------------------------------------------------------
(* Bounds *)
MaxTasks == 3      \* task objects in the tree
MaxStack == 3      \* longest children_stack explored
MaxPathLen == 2    \* longest expanded route handed to a HumanFollowPath
CountCap == 2      \* saturation of the opens / procs counters
RunCap == 4        \* saturation of succ_run
GridW == 3         \* world.tile_width
GridH == 2         \* world.tile_height

Min(a, b) == IF a < b THEN a ELSE b
Max(a, b) == IF a > b THEN a ELSE b
Abs(a) == IF a < 0 THEN -a ELSE a

-----------------------------------------------------------------------------
(* Behaviour tree: task states and task objects *)

RUNNING == "RUNNING"
FAILURE == "FAILURE"
SUCCESS == "SUCCESS"
PyNone == "None"        \* a process() that falls off its end
NoCall == "NoCall"      \* process() was not called in the latest handler
States == {RUNNING, FAILURE, SUCCESS}

Tasks == 1..MaxTasks
Kinds == {"Leaf", "Sequence", "Selector", "Inverter", "Succeeder", "Repeater", "Roam"}
Composites == {"Sequence", "Selector"}
Decorators == {"Inverter", "Succeeder", "Repeater"}
RepeatChoices == {-1, 2}

RECURSIVE Ascending(_)
Ascending(S) ==
    IF S = {} THEN <<>>
    ELSE LET m == CHOOSE x \in S : \A y \in S : x <= y
         IN <<m>> \o Ascending(S \ {m})

\* parent[i] < i; task 1 has no parent
ParentMaps ==
    {p \in [Tasks -> 0..(MaxTasks - 1)] :
        p[1] = 0 /\ \A i \in Tasks \ {1} : p[i] >= 1 /\ p[i] < i}

KindFits(k, n) ==
    IF n = 0 THEN k \in {"Leaf", "Roam"}
    ELSE IF n = 1 THEN k \in Composites \cup Decorators
    ELSE k \in Composites

Top(stk) == IF stk = <<>> THEN 0 ELSE stk[Len(stk)]
Pop(stk) == IF stk = <<>> THEN <<>> ELSE SubSeq(stk, 1, Len(stk) - 1)

RECURSIVE Reversed(_)
Reversed(q) == IF q = <<>> THEN <<>> ELSE Reversed(Tail(q)) \o <<Head(q)>>

NoRoamChild == [exists |-> FALSE, index |-> 0, len |-> 0, opens |-> 0]

Kind(i) == tree.kind[i]
Kids(i) == tree.kids[i]
Child(i) == tree.kids[i][1]
Parent(i) == tree.parent[i]

-----------------------------------------------------------------------------
(* The engine state threaded through one handler: the mutable fields of    *)
(* every task, what the handler's calls are observed to do, the value of   *)
(* the innermost return (r) and whether an exception is unwinding (err).   *)

Fresh(tr) ==
    [stack   |-> [i \in Tasks |-> <<>>],
     rep     |-> [i \in Tasks |-> tr.repeat[i]],
     roam    |-> [i \in Tasks |-> NoRoamChild],
     opens   |-> [i \in Tasks |-> 0],
     procs   |-> [i \in Tasks |-> 0],
     ret     |-> [i \in Tasks |-> NoCall],
     cinits  |-> [i \in Tasks |-> {}],
     run     |-> [i \in Tasks |-> 0],
     badproc |-> FALSE,
     badend  |-> FALSE,
     halted  |-> FALSE,
     log     |-> <<>>,
     err     |-> FALSE,
     r       |-> NoCall]

Current ==
    [stack   |-> children_stack,
     rep     |-> repeat_times,
     roam    |-> roam_child,
     opens   |-> opens,
     procs   |-> procs,
     ret     |-> [i \in Tasks |-> NoCall],
     cinits  |-> child_inits,
     run     |-> succ_run,
     badproc |-> FALSE,
     badend  |-> FALSE,
     halted  |-> FALSE,
     log     |-> <<>>,
     err     |-> FALSE,
     r       |-> NoCall]

NoteInit(s, i) ==
    [s EXCEPT !.log = Append(@, <<"init", i>>),
              !.opens[i] = Min(@ + 1, CountCap),
              !.procs[i] = 0,
              !.cinits = [p \in Tasks |->
                            IF p = i THEN {}
                            ELSE IF p = Parent(i) /\ Kind(p) \in Composites THEN @[p] \cup {i}
                            ELSE @[p]]]

NoteEnd(s, i) ==
    [s EXCEPT !.log = Append(@, <<"end", i>>),
              !.badend = @ \/ s.opens[i] = 0,
              !.opens[i] = 0]

NoteProcess(s, i) ==
    [s EXCEPT !.log = Append(@, <<"process", i>>),
              !.badproc = @ \/ s.opens[i] # 1,
              !.procs[i] = Min(@ + 1, CountCap)]

\* `return v` from the process() of task i
Return(s, i, v) == IF s.err THEN s ELSE [s EXCEPT !.ret[i] = v, !.r = v]

\* AttributeError: a method called on None
Raise(s) == [s EXCEPT !.err = TRUE]

RECURSIVE TaskInit(_, _, _), TaskEnd(_, _), TaskProcess(_, _, _, _)

-----------------------------------------------------------------------------
(* Composite, Sequence, Selector (ai.py 1204-1275) *)

\* Composite.init: push the children in reverse, init the top
CompositeInit(s, i, plen) ==
    LET s1 == [s EXCEPT !.stack[i] = @ \o Reversed(Kids(i))]
    IN TaskInit(s1, Top(s1.stack[i]), plen)

\* Composite.end: children_stack.clear()
CompositeEnd(s, i) == [s EXCEPT !.stack[i] = <<>>]

\* Sequence.process advancing to the next child on FAILURE as on SUCCESS
SequenceProcessAdvanceOnFailure(s, i, o, plen) ==
    LET top == Top(s.stack[i]) IN
    IF top = 0 THEN Raise(s)
    ELSE
      LET c == TaskProcess(s, top, o, plen) IN
      IF c.err THEN c
      ELSE IF c.r \in {SUCCESS, FAILURE} THEN
        LET s1 == [c EXCEPT !.stack[i] = Pop(@)]
            s2 == TaskEnd(s1, top)
        IN IF s2.stack[i] = <<>>
           THEN Return(s2, i, c.r)
           ELSE Return(TaskInit(s2, Top(s2.stack[i]), plen), i, RUNNING)
      ELSE Return(c, i, c.r)

\* Sequence.process calling the next child's init() before last_child.end()
SequenceProcessInitBeforeEnd(s, i, o, plen) ==
    LET top == Top(s.stack[i]) IN
    IF top = 0 THEN Raise(s)
    ELSE
      LET c == TaskProcess(s, top, o, plen) IN
      IF c.err THEN c
      ELSE IF c.r = SUCCESS THEN
        LET s1 == [c EXCEPT !.stack[i] = Pop(@)]
        IN IF s1.stack[i] = <<>>
           THEN Return(TaskEnd(s1, top), i, SUCCESS)
           ELSE Return(TaskEnd(TaskInit(s1, Top(s1.stack[i]), plen), top), i, RUNNING)
      ELSE Return(c, i, c.r)

\* Sequence.process
SequenceProcess(s, i, o, plen) ==
    LET top == Top(s.stack[i]) IN
    IF top = 0 THEN Raise(s)
    ELSE
      LET c == TaskProcess(s, top, o, plen) IN
      IF c.err THEN c
      ELSE IF c.r = SUCCESS THEN
        LET s1 == [c EXCEPT !.stack[i] = Pop(@)]
            s2 == TaskEnd(s1, top)
        IN IF s2.stack[i] = <<>>
           THEN Return(s2, i, SUCCESS)
           ELSE Return(TaskInit(s2, Top(s2.stack[i]), plen), i, RUNNING)
      ELSE Return(c, i, c.r)

\* Selector.process: after starting the next child the method falls off its
\* end, so Python returns None
SelectorProcess(s, i, o, plen) ==
    LET top == Top(s.stack[i]) IN
    IF top = 0 THEN Raise(s)
    ELSE
      LET c == TaskProcess(s, top, o, plen) IN
      IF c.err THEN c
      ELSE IF c.r = FAILURE THEN
        LET s1 == TaskEnd(c, top)
            s2 == IF s1.err THEN s1 ELSE [s1 EXCEPT !.stack[i] = Pop(@)]
        IN IF s2.stack[i] = <<>>
           THEN Return(s2, i, FAILURE)
           ELSE Return(TaskInit(s2, Top(s2.stack[i]), plen), i, PyNone)
      ELSE Return(c, i, c.r)

-----------------------------------------------------------------------------
(* Decorator, Inverter, Succeeder, Repeater (ai.py 1278-1362) *)

\* Decorator.init
DecoratorInit(s, i, plen) == TaskInit(s, Child(i), plen)

\* Decorator.end
DecoratorEnd(s, i) == TaskEnd(s, Child(i))

\* Inverter.process
InverterProcess(s, i, o, plen) ==
    LET c == TaskProcess(s, Child(i), o, plen) IN
    IF c.err THEN c
    ELSE IF c.r = RUNNING THEN Return(c, i, RUNNING)
    ELSE IF c.r = SUCCESS THEN Return(c, i, FAILURE)
    ELSE Return(c, i, SUCCESS)

\* Succeeder.process
SucceederProcess(s, i, o, plen) ==
    LET c == TaskProcess(s, Child(i), o, plen) IN
    IF c.err THEN c
    ELSE IF c.r = RUNNING THEN Return(c, i, RUNNING)
    ELSE Return(c, i, SUCCESS)

\* Repeater.process testing the budget before decrementing it
RepeaterProcessTestFirst(s, i, o, plen) ==
    LET c == TaskProcess(s, Child(i), o, plen) IN
    IF c.err THEN c
    ELSE
      LET c1 == [c EXCEPT !.run[i] = IF @ >= 0 /\ c.r = SUCCESS
                                      THEN Min(@ + 1, RunCap) ELSE -1]
      IN
      IF c.r = RUNNING THEN Return(c1, i, RUNNING)
      ELSE IF c1.rep[i] = 0 /\ tree.repeat[i] > 0 THEN Return(c1, i, SUCCESS)
      ELSE
        LET c2 == IF c1.rep[i] > 0 THEN [c1 EXCEPT !.rep[i] = @ - 1] ELSE c1 IN
        Return(TaskInit(TaskEnd(c2, Child(i)), Child(i), plen), i, RUNNING)

\* Repeater.process without the restart of the child
RepeaterProcessNoRestart(s, i, o, plen) ==
    LET c == TaskProcess(s, Child(i), o, plen) IN
    IF c.err THEN c
    ELSE
      LET c1 == [c EXCEPT !.run[i] = IF @ >= 0 /\ c.r = SUCCESS
                                      THEN Min(@ + 1, RunCap) ELSE -1]
      IN
      IF c.r = RUNNING THEN Return(c1, i, RUNNING)
      ELSE
        LET c2 == IF c1.rep[i] > 0 THEN [c1 EXCEPT !.rep[i] = @ - 1] ELSE c1 IN
        IF c1.rep[i] > 0 /\ c2.rep[i] = 0
        THEN Return(c2, i, SUCCESS)
        ELSE Return(c2, i, RUNNING)

\* Repeater.process
RepeaterProcess(s, i, o, plen) ==
    LET c == TaskProcess(s, Child(i), o, plen) IN
    IF c.err THEN c
    ELSE
      LET c1 == [c EXCEPT !.run[i] = IF @ >= 0 /\ c.r = SUCCESS
                                      THEN Min(@ + 1, RunCap) ELSE -1]
      IN
      IF c.r = RUNNING THEN Return(c1, i, RUNNING)
      ELSE
        LET c2 == IF c1.rep[i] > 0 THEN [c1 EXCEPT !.rep[i] = @ - 1] ELSE c1 IN
        IF c1.rep[i] > 0 /\ c2.rep[i] = 0
        THEN Return(c2, i, SUCCESS)
        ELSE Return(TaskInit(TaskEnd(c2, Child(i)), Child(i), plen), i, RUNNING)

-----------------------------------------------------------------------------
(* HumanRoam and the HumanFollowPath it builds (ai.py 1451-1530).  The     *)
(* route comes from find_walking_path; here only its expanded length plen  *)
(* matters.  o[i] is the result of the inner HumanWalkToLocation.          *)

\* HumanRoam.init: self.child = HumanFollowPath(controller, path); the new
\* child's init() is not called
RoamInit(s, i, plen) ==
    [s EXCEPT !.roam[i] = [exists |-> TRUE, index |-> 0, len |-> plen, opens |-> 0]]

\* Decorator.end on a HumanRoam, then on its HumanFollowPath
RoamEnd(s, i) ==
    IF ~s.roam[i].exists THEN Raise(s)
    ELSE [s EXCEPT !.badend = @ \/ s.roam[i].opens = 0,
                   !.roam[i].opens = 0]

\* HumanFollowPath.process
FollowPathProcess(s, i, o) ==
    LET s1 == [s EXCEPT !.badproc = @ \/ s.roam[i].opens # 1] IN
    IF o[i] # RUNNING THEN
      LET s2 == [s1 EXCEPT !.roam[i].index = @ + 1] IN
      IF s2.roam[i].index >= s2.roam[i].len
      THEN Return([s2 EXCEPT !.halted = TRUE], i, SUCCESS)
      ELSE Return(s2, i, RUNNING)
    ELSE Return(s1, i, RUNNING)

\* HumanRoam.process
RoamProcess(s, i, o) ==
    IF ~s.roam[i].exists THEN Raise(s) ELSE FollowPathProcess(s, i, o)

-----------------------------------------------------------------------------
(* Dynamic dispatch of init / end / process on the task's class *)

TaskInit(s, i, plen) ==
    IF s.err THEN s
    ELSE LET s1 == NoteInit(s, i) IN
         CASE Kind(i) = "Leaf"       -> s1
           [] Kind(i) \in Composites -> CompositeInit(s1, i, plen)
           [] Kind(i) \in Decorators -> DecoratorInit(s1, i, plen)
           [] Kind(i) = "Roam"       -> RoamInit(s1, i, plen)

TaskEnd(s, i) ==
    IF s.err THEN s
    ELSE LET s1 == NoteEnd(s, i) IN
         CASE Kind(i) = "Leaf"       -> s1
           [] Kind(i) \in Composites -> CompositeEnd(s1, i)
           [] Kind(i) \in Decorators -> DecoratorEnd(s1, i)
           [] Kind(i) = "Roam"       -> RoamEnd(s1, i)

TaskProcess(s, i, o, plen) ==
    IF s.err THEN s
    ELSE LET s1 == NoteProcess(s, i) IN
         CASE Kind(i) = "Leaf"      -> Return(s1, i, o[i])
           [] Kind(i) = "Sequence"  -> SequenceProcess(s1, i, o, plen)
           [] Kind(i) = "Selector"  -> SelectorProcess(s1, i, o, plen)
           [] Kind(i) = "Inverter"  -> InverterProcess(s1, i, o, plen)
           [] Kind(i) = "Succeeder" -> SucceederProcess(s1, i, o, plen)
           [] Kind(i) = "Repeater"  -> RepeaterProcess(s1, i, o, plen)
           [] Kind(i) = "Roam"      -> RoamProcess(s1, i, o)

-----------------------------------------------------------------------------
(* BehaviourTree (ai.py 1123-1154) *)

\* the handler entered: set_root(i) or tick() with current = i
NoteHandler(s, name, i) == [s EXCEPT !.log = Append(@, <<name, i>>)]

\* set_root with self.current.init() moved before the end() of the old root
SetRootCallsInitFirst(s, old, new, plen) ==
    LET s1 == TaskInit(NoteHandler(s, "set_root", new), new, plen)
    IN IF old # 0 THEN TaskEnd(s1, old) ELSE s1

\* BehaviourTree.set_root
SetRootCalls(s, old, new, plen) ==
    LET s0 == NoteHandler(s, "set_root", new)
        s1 == IF old # 0 THEN TaskEnd(s0, old) ELSE s0
    IN TaskInit(s1, new, plen)

\* BehaviourTree.tick
TickCalls(s, cur, o, plen) == TaskProcess(NoteHandler(s, "tick", cur), cur, o, plen)

\* the part of the state space explored
StacksFit(s) ==
    \A i \in Tasks : /\ Len(s.stack[i]) <= MaxStack
                     /\ s.roam[i].index <= MaxPathLen

Store(s) ==
    /\ children_stack' = s.stack
    /\ repeat_times' = s.rep
    /\ roam_child' = s.roam
    /\ opens' = s.opens
    /\ procs' = s.procs
    /\ ret' = s.ret
    /\ child_inits' = s.cinits
    /\ succ_run' = s.run
    /\ bad_proc' = s.badproc
    /\ bad_end' = s.badend
    /\ halted' = s.halted
    /\ calls' = s.log
    /\ crashed' = s.err

\* what the leaves (and the inner walk task of a HumanFollowPath, which never
\* fails) would return if processed in this tick
Outcomes ==
    {o \in [Tasks -> States] :
        \A i \in Tasks : /\ Kind(i) = "Roam" => o[i] # FAILURE
                         /\ Kind(i) \notin {"Leaf", "Roam"} => o[i] = RUNNING}

\* lengths of the route a HumanRoam.init may get
PathLens == IF \E i \in Tasks : Kind(i) = "Roam" THEN 1..MaxPathLen ELSE {1}

Tick ==
    /\ pc = "off"
    /\ ~crashed
    /\ \E o \in Outcomes, plen \in PathLens :
         LET s == TickCalls(Current, root, o, plen) IN
         /\ StacksFit(s)
         /\ Store(s)
    /\ UNCHANGED <<tree, root, navVars, unitVars>>

SetRoot ==
    /\ pc = "off"
    /\ ~crashed
    /\ \E new \in Tasks, plen \in PathLens :
         LET s == SetRootCalls(Current, root, new, plen) IN
         /\ StacksFit(s)
         /\ Store(s)
         /\ root' = new
    /\ UNCHANGED <<tree, navVars, unitVars>>

Trees ==
    {[kind |-> k, parent |-> p,
      kids |-> [i \in Tasks |-> Ascending({j \in Tasks : p[j] = i})],
      repeat |-> [i \in Tasks |-> IF k[i] = "Repeater" THEN rp[i] ELSE 0]] :
       p \in ParentMaps,
       k \in [Tasks -> Kinds],
       rp \in [Tasks -> RepeatChoices]}

TreeOK(tr) ==
    \A i \in Tasks : KindFits(tr.kind[i], Len(tr.kids[i]))

UnitOff ==
    /\ heap = <<>>
    /\ last_pop = <<>>
    /\ cur_rect = <<>>
    /\ undo = <<>>
    /\ waypoints = <<>>
    /\ expanded = <<>>
    /\ walker = <<>>
    /\ roamer = <<>>

NavOff ==
    /\ grid = <<>>
    /\ pc = "off"
    /\ positions = {}
    /\ rects = <<>>
    /\ graph = <<>>
    /\ query = <<>>
    /\ frontier = <<>>
    /\ came_from = <<>>
    /\ costs = <<>>
    /\ route = <<>>

\* BehaviourTree.__init__: set_root(tree) with no previous root
InitTree ==
    /\ NavOff
    /\ UnitOff
    /\ tree \in {tr \in Trees : TreeOK(tr)}
    /\ root = 1
    /\ \E plen \in PathLens :
         LET s == SetRootCalls(Fresh(tree), 0, 1, plen) IN
         /\ children_stack = s.stack
         /\ repeat_times = s.rep
         /\ roam_child = s.roam
         /\ opens = s.opens
         /\ procs = s.procs
         /\ ret = s.ret
         /\ child_inits = s.cinits
         /\ succ_run = s.run
         /\ bad_proc = s.badproc
         /\ bad_end = s.badend
         /\ halted = s.halted
         /\ calls = s.log
         /\ crashed = s.err

NextTree == Tick \/ SetRoot

SpecTree == InitTree /\ [][NextTree]_vars

-----------------------------------------------------------------------------
(* World grid, directions and rectangles                                   *)
(* (constants.py 480-537, util.py 14, 289-294, 328-520, world.py 415-462) *)

NORTH == 0
WEST == 1
SOUTH == 2
EAST == 3
VALUES == <<NORTH, WEST, SOUTH, EAST>>

\* util.SURROUNDING_OFFSETS, indexed by direction + 1
SURROUNDING_OFFSETS == << <<0, -1>>, <<-1, 0>>, <<0, 1>>, <<1, 0>> >>

GRASS == 1
ROAD == 3
PAVEMENT == 4
SAND == 5
AnyBlocktype == -1      \* blocktype=None: every blocktype is accepted

OUT_OF_RANGE == 100
WRONG_BLOCK_TYPE == 101

\* generate_graph(BlockType.PAVEMENT, {BlockType.ROAD: 5, BlockType.SAND: 20})
ROAD_WEIGHT == 5
SAND_WEIGHT == 20
SecondaryBlocktypes == {ROAD, SAND}
SecondaryWeight(bt) == IF bt = ROAD THEN ROAD_WEIGHT ELSE SAND_WEIGHT

None == <<>>            \* Python None where a tile or a list is expected

Tiles == (0..(GridW - 1)) \X (0..(GridH - 1))

is_negative(d) == d = NORTH \/ d = WEST
is_horizontal(d) == d \in {EAST, WEST}

add_direction(pos, d, delta) ==
    <<pos[1] + SURROUNDING_OFFSETS[d + 1][1] * delta,
      pos[2] + SURROUNDING_OFFSETS[d + 1][2] * delta>>

is_in_range(x, y) == 0 <= x /\ x < GridW /\ 0 <= y /\ y < GridH

\* layers[layer][y][x] does not raise IndexError: Python list indexing
\* accepts -len .. len-1
Indexable(x, y) == -GridW <= x /\ x < GridW /\ -GridH <= y /\ y < GridH

Rect(x, y, w, h) == [x |-> x, y |-> y, width |-> w, height |-> h]

\* Rect.__setattr__ for width / height: a negative value flips the rectangle
SetWidth(r, v) == IF v < 0 THEN [r EXCEPT !.x = @ + v, !.width = -v] ELSE [r EXCEPT !.width = v]
SetHeight(r, v) == IF v < 0 THEN [r EXCEPT !.y = @ + v, !.height = -v] ELSE [r EXCEPT !.height = v]

\* Rect.expand with the shift of x / y taken as old - abs(delta)
ExpandShiftAbs(r, d, delta) ==
    LET r1 == IF is_horizontal(d) THEN SetWidth(r, r.width + delta)
              ELSE SetHeight(r, r.height + delta)
    IN IF is_negative(d)
       THEN (IF is_horizontal(d) THEN [r1 EXCEPT !.x = @ - Abs(delta)]
             ELSE [r1 EXCEPT !.y = @ - Abs(delta)])
       ELSE r1

\* Rect.expand
Expand(r, d, delta) ==
    LET r1 == IF is_horizontal(d) THEN SetWidth(r, r.width + delta)
              ELSE SetHeight(r, r.height + delta)
    IN IF is_negative(d)
       THEN (IF is_horizontal(d) THEN [r1 EXCEPT !.x = @ - delta]
             ELSE [r1 EXCEPT !.y = @ - delta])
       ELSE r1

\* Rect.translate
Translate(r, xy) == [r EXCEPT !.x = @ + xy[1], !.y = @ + xy[2]]

\* world.iterate_rectangle -> iterate_blocks(r.x, r.y, r.x + r.width,
\* r.y + r.height): the coordinates visited, x outermost, y innermost
IterateRectangle(r) ==
    LET x2 == IF r.x + r.width < 0 THEN GridW ELSE r.x + r.width
        y2 == IF r.y + r.height < 0 THEN GridH ELSE r.y + r.height
        nx == Max(x2 - r.x, 0)
        ny == Max(y2 - r.y, 0)
    IN [k \in 1..(nx * ny) |-> <<r.x + ((k - 1) \div ny), r.y + ((k - 1) % ny)>>]

\* the tiles the loops `for x in xrange(rect.x, rect.x + rect.width): for y ..`
\* of generate_graph visit
RectTiles(r) ==
    {<<x, y>> : x \in r.x..(r.x + r.width - 1), y \in r.y..(r.y + r.height - 1)}

-----------------------------------------------------------------------------
(* NavigationGraph._valid, _max_expansion (ai.py 809-870) *)

\* _valid without the blocktype test
ValidInRangeOnly(g, pos, blocktype) ==
    IF ~is_in_range(pos[1], pos[2]) THEN OUT_OF_RANGE ELSE 1

\* NavigationGraph._valid
Valid(g, pos, blocktype) ==
    IF ~is_in_range(pos[1], pos[2]) THEN OUT_OF_RANGE
    ELSE IF blocktype # AnyBlocktype /\ g[pos] # blocktype THEN WRONG_BLOCK_TYPE
    ELSE 1

\* check_rect of _max_expansion: False at the first tile that raises
\* IndexError or is not valid, else whether any tile was visited
CheckRect(g, r, blocktype) ==
    LET seq == IterateRectangle(r) IN
    /\ Len(seq) > 0
    /\ \A k \in 1..Len(seq) :
         /\ Indexable(seq[k][1], seq[k][2])
         /\ Valid(g, seq[k], blocktype) = 1

\* find_node of _find_nearest_node: the first visited tile that is a node
RECURSIVE FirstNode(_, _, _)
FirstNode(seq, k, nodes) ==
    IF k > Len(seq) THEN None
    ELSE IF seq[k] \in nodes THEN seq[k]
    ELSE FirstNode(seq, k + 1, nodes)

FindNode(r, nodes) == FirstNode(IterateRectangle(r), 1, nodes)

\* one round of `for d in (x for x in Direction.VALUES if directions[x])`
\* from the k-th direction on; e = [rect, dirs, found]; func is FALSE when no
\* func is given, else func is find_node over nodes
RECURSIVE ExpandRound(_, _, _, _, _, _)
ExpandRound(g, e, k, blocktype, func, nodes) ==
    IF k > Len(VALUES) \/ e.found THEN e
    ELSE
      LET d == VALUES[k] IN
      IF ~e.dirs[d] THEN ExpandRound(g, e, k + 1, blocktype, func, nodes)
      ELSE
        LET r1 == Expand(e.rect, d, 1) IN
        IF ~CheckRect(g, r1, blocktype)
        THEN ExpandRound(g, [e EXCEPT !.rect = Expand(r1, d, -1), !.dirs[d] = FALSE],
                         k + 1, blocktype, func, nodes)
        ELSE IF func /\ FindNode(r1, nodes) # None
        THEN [e EXCEPT !.rect = r1, !.found = TRUE]
        ELSE ExpandRound(g, [e EXCEPT !.rect = r1], k + 1, blocktype, func, nodes)

RECURSIVE ExpandAll(_, _, _, _, _)
ExpandAll(g, e, blocktype, func, nodes) ==
    IF \A d \in DOMAIN e.dirs : ~e.dirs[d] THEN e          \* all_expired
    ELSE LET e1 == ExpandRound(g, e, 1, blocktype, func, nodes)
         IN IF e1.found THEN e1 ELSE ExpandAll(g, e1, blocktype, func, nodes)

\* _max_expansion that returns after one pass over the directions
MaxExpansionOnePass(g, tile_pos, blocktype, func, nodes) ==
    ExpandRound(g, [rect |-> Rect(tile_pos[1], tile_pos[2], 1, 1),
                    dirs |-> [d \in {NORTH, WEST, SOUTH, EAST} |-> TRUE],
                    found |-> FALSE],
                1, blocktype, func, nodes).rect

\* NavigationGraph._max_expansion
MaxExpansion(g, tile_pos, blocktype, func, nodes) ==
    ExpandAll(g, [rect |-> Rect(tile_pos[1], tile_pos[2], 1, 1),
                  dirs |-> [d \in {NORTH, WEST, SOUTH, EAST} |-> TRUE],
                  found |-> FALSE],
              blocktype, func, nodes).rect

-----------------------------------------------------------------------------
(* NavigationGraph.generate_graph, _connect_nodes (ai.py 872-983) *)

\* the two nodes of a region: its position, and its position after the shift
\* along its longer side
RegionShift(r) ==
    IF r.width > r.height THEN <<r.width - r.height, 0>> ELSE <<0, r.height - r.width>>

RegionNodes(r) == {<<r.x, r.y>>, <<r.x + RegionShift(r)[1], r.y + RegionShift(r)[2]>>}

\* the ray of _connect_nodes from a node in direction d, now at pos with
\* total_weight so far: None, or <<other, total_weight, weight of the last step>>
RECURSIVE RayCast(_, _, _, _, _)
RayCast(g, nodes, pos0, d, total0) ==
    LET pos == add_direction(pos0, d, 1)
        primary_check == Valid(g, pos, PAVEMENT)
    IN IF primary_check = OUT_OF_RANGE THEN None
       ELSE
         LET weight == IF primary_check = 1 THEN 1
                       ELSE IF g[pos] \in SecondaryBlocktypes THEN SecondaryWeight(g[pos])
                       ELSE 0      \* weight is None
         IN IF weight = 0 THEN None
            ELSE IF pos \in nodes THEN <<pos, total0 + weight, weight>>
            ELSE RayCast(g, nodes, pos, d, total0 + weight)

\* graph[n] = {(other, total_weight)} in place of graph[n].add(...)
AddEdgeOverwrite(gr, n, other, total_weight, weight) ==
    [m \in DOMAIN gr |->
        IF m = n /\ m = other THEN {<<other, total_weight>>, <<n, total_weight>>}
        ELSE IF m = n THEN {<<other, total_weight>>}
        ELSE IF m = other THEN gr[m] \cup {<<n, total_weight>>}
        ELSE gr[m]]

\* graph[n].add((other, total_weight)); graph[other].add((n, total_weight))
AddEdge(gr, n, other, total_weight, weight) ==
    [m \in DOMAIN gr |->
        IF m = n /\ m = other THEN gr[m] \cup {<<other, total_weight>>, <<n, total_weight>>}
        ELSE IF m = n THEN gr[m] \cup {<<other, total_weight>>}
        ELSE IF m = other THEN gr[m] \cup {<<n, total_weight>>}
        ELSE gr[m]]

\* the rays of the nodes in todo, directions k.. of the first of them
RECURSIVE ConnectFrom(_, _, _, _, _)
ConnectFrom(g, nodes, gr, todo, k) ==
    IF todo = {} THEN gr
    ELSE
      LET n == CHOOSE m \in todo : TRUE IN
      IF k > Len(VALUES) THEN ConnectFrom(g, nodes, gr, todo \ {n}, 1)
      ELSE
        LET hit == RayCast(g, nodes, n, VALUES[k], 0) IN
        ConnectFrom(g, nodes,
                    IF hit = None THEN gr ELSE AddEdge(gr, n, hit[1], hit[2], hit[3]),
                    todo, k + 1)

\* NavigationGraph._connect_nodes
ConnectNodes(g, nodes) == ConnectFrom(g, nodes, [n \in nodes |-> {}], nodes, 1)

RECURSIVE AllRegionNodes(_)
AllRegionNodes(rs) ==
    IF rs = <<>> THEN {} ELSE RegionNodes(Head(rs)) \cup AllRegionNodes(Tail(rs))

NoRoute == [status |-> "unset", path |-> <<>>, prefix_len |-> 0, main_len |-> 0, main_path |-> <<>>]
NoQuery == [src |-> None, dest |-> None, start_node |-> None, end_node |-> None]

\* generate_graph: positions = set of the tiles of the blocktype
BeginGenerate ==
    /\ pc = "new"
    /\ positions' = {t \in Tiles : grid[t] = PAVEMENT}
    /\ pc' = "decompose"
    /\ UNCHANGED <<grid, rects, graph, query, frontier, came_from, costs, route, treeVars, unitVars>>

\* the iteration with only next_pos itself removed from positions
DecomposeRemoveSeedOnly ==
    /\ pc = "decompose"
    /\ positions # {}
    /\ \E next_pos \in positions :
         LET rect == MaxExpansion(grid, next_pos, PAVEMENT, FALSE, {}) IN
         /\ positions' = positions \ {next_pos}
         /\ rects' = Append(rects, rect)
    /\ UNCHANGED <<grid, pc, graph, query, frontier, came_from, costs, route, treeVars, unitVars>>

\* one iteration of `while positions`, for whichever pending tile the set
\* iterator yields first
Decompose ==
    /\ pc = "decompose"
    /\ positions # {}
    /\ \E next_pos \in positions :
         LET rect == MaxExpansion(grid, next_pos, PAVEMENT, FALSE, {}) IN
         /\ positions' = positions \ RectTiles(rect)
         /\ rects' = Append(rects, rect)
    /\ UNCHANGED <<grid, pc, graph, query, frontier, came_from, costs, route, treeVars, unitVars>>

\* the rest of generate_graph: register the nodes (which translates every
\* rect to its far node), connect them
Connect ==
    /\ pc = "decompose"
    /\ positions = {}
    /\ rects' = [k \in 1..Len(rects) |-> Translate(rects[k], RegionShift(rects[k]))]
    /\ graph' = ConnectNodes(grid, AllRegionNodes(rects))
    /\ pc' = "idle"
    /\ UNCHANGED <<grid, positions, query, frontier, came_from, costs, route, treeVars, unitVars>>

-----------------------------------------------------------------------------
(* util.Heap (util.py 599-675) and util.compare (util.py 312-315).  A heap *)
(* is [heap, max]: heap[1 .. _n-1] of the Python list and _max; the        *)
(* comparison is a function on pairs of elements.                          *)

compare(a, b) == IF a = b THEN 0 ELSE IF a < b THEN -1 ELSE 1

\* Heap.__init__
HeapNew(size) == [heap |-> <<>>, max |-> size]

\* Heap.empty: _n == 1
HeapEmpty(h) == Len(h.heap) + 1 = 1

\* the test of Heap.add that raises "Heap is full": _n == _max
HeapFull(h) == Len(h.heap) + 1 = h.max

\* Heap._swap
Swap(q, a, b) == [q EXCEPT ![a] = q[b], ![b] = q[a]]

\* Heap._bubble_up
RECURSIVE BubbleUp(_, _, _)
BubbleUp(q, i, cmp) ==
    IF i = 1 THEN q
    ELSE LET parent == i \div 2 IN
         IF cmp[<<q[i], q[parent]>>] > 0
         THEN BubbleUp(Swap(q, i, parent), parent, cmp)
         ELSE q

\* Heap._bubble_down, with _n = Len(q) + 1
RECURSIVE BubbleDown(_, _, _)
BubbleDown(q, i, cmp) ==
    LET left == i * 2
        right == i * 2 + 1
        n == Len(q) + 1
    IN IF left >= n THEN q
       ELSE IF right >= n THEN
         (IF cmp[<<q[i], q[left]>>] < 0
          THEN BubbleDown(Swap(q, i, left), left, cmp)
          ELSE q)
       ELSE IF cmp[<<q[i], q[left]>>] < 0 /\ cmp[<<q[right], q[left]>>] < 0
         THEN BubbleDown(Swap(q, i, left), left, cmp)
       ELSE IF cmp[<<q[i], q[right]>>] < 0 /\ cmp[<<q[left], q[right]>>] < 0
         THEN BubbleDown(Swap(q, i, right), right, cmp)
       ELSE q

\* Heap.add when the heap is not full
HeapAdd(h, x, cmp) ==
    [h EXCEPT !.heap = BubbleUp(Append(h.heap, x), Len(h.heap) + 1, cmp)]

\* Heap.pop: the value returned, and the heap left
HeapPopValue(h) == h.heap[1]

HeapPopRest(h, cmp) ==
    LET n == Len(h.heap)
        q == Swap(h.heap, 1, n)
    IN [h EXCEPT !.heap = BubbleDown(SubSeq(q, 1, n - 1), 1, cmp)]

-----------------------------------------------------------------------------
(* Route search and assembly (ai.py 985-1096) *)

\* util.distance_sqrd; util.distance is its square root, which orders the
\* same way
distance_sqrd(p1, p2) ==
    (p1[1] - p2[1]) * (p1[1] - p2[1]) + (p1[2] - p2[2]) * (p1[2] - p2[2])

\* lambda a, b: util.compare(heuristic(a), heuristic(b))
FrontierCompare(nodes, goal) ==
    [p \in nodes \X nodes |->
        compare(distance_sqrd(p[1], goal), distance_sqrd(p[2], goal))]

Sign(v) == IF v > 0 THEN 1 ELSE IF v < 0 THEN -1 ELSE 0

\* Direction.get_direction_between, as the offset of the direction
DirectionOffset(p1, p2) ==
    LET dx == p2[1] - p1[1]
        dy == p2[2] - p1[2]
    IN IF Abs(dx) > Abs(dy) THEN <<Sign(dx), 0>> ELSE <<0, Sign(dy)>>

\* NavigationGraph._find_direct_path
RECURSIVE FindDirectPath(_, _)
FindDirectPath(src_tile, dest_tile) ==
    IF src_tile = dest_tile THEN <<src_tile>>
    ELSE LET off == DirectionOffset(src_tile, dest_tile)
             next == <<src_tile[1] + off[1], src_tile[2] + off[2]>>
         IN <<src_tile>> \o FindDirectPath(next, dest_tile)

\* _find_nearest_node without the second expansion over all blocktypes
FindNearestNodeNoRetry(g, nodes, tile_pos, blocktype) ==
    FindNode(MaxExpansion(g, tile_pos, blocktype, TRUE, nodes), nodes)

\* NavigationGraph._find_nearest_node
FindNearestNode(g, nodes, tile_pos, blocktype) ==
    LET rect == MaxExpansion(g, tile_pos, blocktype, TRUE, nodes) IN
    IF rect.width = 1 /\ rect.height = 1
    THEN FindNode(MaxExpansion(g, tile_pos, AnyBlocktype, TRUE, nodes), nodes)
    ELSE FindNode(rect, nodes)

\* path = [goal, came_from[goal]]: the walk over came_from stopped after its
\* first step
TraceBackOneStep(node, trace, fuel) ==
    IF node \notin DOMAIN trace THEN <<node>> ELSE <<node, trace[node]>>

\* the walk of _find_path over came_from, from node back to the start: the
\* path in walking order, or None if the walk has not ended after `fuel` steps
RECURSIVE TraceBack(_, _, _)
TraceBack(node, trace, fuel) ==
    IF node \notin DOMAIN trace THEN <<node>>
    ELSE IF fuel = 0 THEN None
    ELSE LET rest == TraceBack(trace[node], trace, fuel - 1)
         IN IF rest = None THEN None ELSE <<node>> \o rest

\* path[1:]
Rest(path) == SubSeq(path, 2, Len(path))

\* path.extend(main_path); path.extend(suffix_path), the shared ends kept
AssembleKeepOverlap(prefix_path, main_path, suffix_path) ==
    prefix_path \o main_path \o suffix_path

\* path = prefix_path[1:]; path.extend(main_path); path.extend(suffix_path[1:])
AssembleDropFirst(prefix_path, main_path, suffix_path) ==
    Rest(prefix_path) \o main_path \o Rest(suffix_path)

\* the route find_walking_path puts together
Assemble(prefix_path, main_path, suffix_path) ==
    prefix_path \o Rest(main_path) \o Rest(suffix_path)

\* the body of `for neighbour, weight in self.graph[current]` for the edges
\* in the order ord, from the k-th on; st = [frontier, came_from, costs, err]
RECURSIVE Relax(_, _, _, _, _)
Relax(st, current, ord, k, cmp) ==
    IF k > Len(ord) \/ st.err THEN st
    ELSE
      LET neighbour == ord[k][1]
          new_cost == st.costs[current] + ord[k][2]
      IN IF neighbour \notin DOMAIN st.costs \/ new_cost < st.costs[neighbour]
         THEN IF HeapFull(st.frontier)
              THEN [st EXCEPT !.costs = (neighbour :> new_cost) @@ @, !.err = TRUE]
              ELSE Relax([frontier  |-> HeapAdd(st.frontier, neighbour, cmp),
                          came_from |-> (neighbour :> current) @@ st.came_from,
                          costs     |-> (neighbour :> new_cost) @@ st.costs,
                          err       |-> FALSE],
                         current, ord, k + 1, cmp)
         ELSE Relax(st, current, ord, k + 1, cmp)

\* the orders in which a set can be iterated
Orders(S) ==
    {q \in [1..Cardinality(S) -> S] : \A a, b \in 1..Cardinality(S) : a # b => q[a] # q[b]}

RouteNone == [status |-> "None", path |-> <<>>, prefix_len |-> 0, main_len |-> 0, main_path |-> <<>>]
RouteError == [status |-> "error", path |-> <<>>, prefix_len |-> 0, main_len |-> 0, main_path |-> <<>>]
RouteLoops == [status |-> "loops", path |-> <<>>, prefix_len |-> 0, main_len |-> 0, main_path |-> <<>>]

\* the list find_walking_path returns, with the lengths of prefix_path and
\* main_path it was put together from
RouteOf(prefix_path, main_path, suffix_path) ==
    [status |-> "route", path |-> Assemble(prefix_path, main_path, suffix_path),
     prefix_len |-> Len(prefix_path), main_len |-> Len(main_path),
     main_path |-> main_path]

\* show_path = True
show_path_on == TRUE

\* show_path = False: the debug block at the end of find_walking_path is off
show_path == FALSE

\* the graph the debug block builds from the returned path: for every tile of
\* the path that is a node, its edges to the next tile of the path; a tile that
\* is no node is skipped (KeyError)
ShownGraph(g, path) ==
    LET keys == {path[i] : i \in 1..Len(path)} \cap DOMAIN g
        last(n) == CHOOSE i \in 1..Len(path) :
                     path[i] = n /\ \A j \in (i + 1)..Len(path) : path[j] # n
    IN [n \in keys |->
          {e \in g[n] : last(n) # Len(path) /\ path[last(n) + 1] = e[1]}]

\* self.graph when find_walking_path returns r
GraphAfterQuery(g, r) ==
    IF show_path /\ r.status = "route" THEN ShownGraph(g, r.path) ELSE g

Nodes == DOMAIN graph

\* find_walking_path(src, dest) from the two nearest nodes found, up to the
\* first pop of _find
StartQuery(src, dest, start_node, end_node) ==
    LET q == [src |-> src, dest |-> dest, start_node |-> start_node, end_node |-> end_node]
        h == HeapNew(Cardinality(Nodes))
    IN
    /\ query' = q
    /\ IF start_node = None \/ end_node = None
       THEN /\ route' = RouteNone
            /\ pc' = "done"
            /\ UNCHANGED <<frontier, came_from, costs>>
       ELSE IF HeapFull(h)
       THEN /\ route' = RouteError
            /\ pc' = "crashed"
            /\ UNCHANGED <<frontier, came_from, costs>>
       ELSE /\ route' = NoRoute
            /\ pc' = "search"
            /\ frontier' = HeapAdd(h, start_node, FrontierCompare(Nodes, end_node))
            /\ came_from' = <<>>
            /\ costs' = (start_node :> 0)

\* a call of find_walking_path, up to the first pop of _find
BeginQuery ==
    /\ pc = "idle"
    /\ LET nearest == [t \in Tiles |-> FindNearestNode(grid, Nodes, t, PAVEMENT)] IN
       \E src \in Tiles, dest \in Tiles :
         StartQuery(src, dest, nearest[src], nearest[dest])
    /\ UNCHANGED <<grid, positions, rects, graph, treeVars, unitVars>>

\* one iteration of `while not frontier.empty()` of _find, or what follows
\* the loop, up to the return of find_walking_path
SearchStep ==
    /\ pc = "search"
    /\ LET cmp == FrontierCompare(Nodes, query.end_node) IN
       IF HeapEmpty(frontier)
       THEN /\ route' = RouteNone
            /\ pc' = "done"
            /\ frontier' = <<>> /\ came_from' = <<>> /\ costs' = <<>>
       ELSE
         LET current == HeapPopValue(frontier)
             popped == HeapPopRest(frontier, cmp)
         IN
         IF current = query.end_node
         THEN LET main == TraceBack(current, came_from, Cardinality(Nodes)) IN
              /\ route' = IF main = None THEN RouteLoops
                          ELSE RouteOf(FindDirectPath(query.src, query.start_node),
                                       Reversed(main),
                                       FindDirectPath(query.end_node, query.dest))
              /\ pc' = "done"
              /\ frontier' = <<>> /\ came_from' = <<>> /\ costs' = <<>>
         ELSE \E ord \in Orders(graph[current]) :
                LET st == Relax([frontier |-> popped, came_from |-> came_from,
                                 costs |-> costs, err |-> FALSE],
                                current, ord, 1, cmp)
                IN IF st.err
                   THEN /\ route' = RouteError
                        /\ pc' = "crashed"
                        /\ frontier' = <<>> /\ came_from' = <<>> /\ costs' = <<>>
                   ELSE /\ frontier' = st.frontier
                        /\ came_from' = st.came_from
                        /\ costs' = st.costs
                        /\ UNCHANGED <<route, pc>>
    /\ graph' = GraphAfterQuery(graph, route')
    /\ UNCHANGED <<grid, positions, rects, query, treeVars, unitVars>>

\* the caller has taken the result of find_walking_path
ReturnRoute ==
    /\ pc = "done"
    /\ pc' = "idle"
    /\ query' = NoQuery
    /\ route' = NoRoute
    /\ UNCHANGED <<grid, positions, rects, graph, frontier, came_from, costs, treeVars, unitVars>>

TreeOff ==
    /\ tree = <<>>
    /\ root = 0
    /\ children_stack = <<>>
    /\ repeat_times = <<>>
    /\ roam_child = <<>>
    /\ crashed = FALSE
    /\ opens = <<>>
    /\ procs = <<>>
    /\ ret = <<>>
    /\ child_inits = <<>>
    /\ succ_run = <<>>
    /\ bad_proc = FALSE
    /\ bad_end = FALSE
    /\ halted = FALSE
    /\ calls = <<>>

\* the world after loading, NavigationGraph.__init__ done
InitNav(blocktypes) ==
    /\ TreeOff
    /\ UnitOff
    /\ grid \in [Tiles -> blocktypes]
    /\ pc = "new"
    /\ positions = {}
    /\ rects = <<>>
    /\ graph = <<>>
    /\ query = NoQuery
    /\ frontier = <<>>
    /\ came_from = <<>>
    /\ costs = <<>>
    /\ route = NoRoute

InitGraph == InitNav({PAVEMENT, ROAD, GRASS})
NextGraph == BeginGenerate \/ Decompose \/ Connect
SpecGraph == InitGraph /\ [][NextGraph]_vars

InitRoute == InitNav({PAVEMENT, ROAD, GRASS})
NextRoute == BeginGenerate \/ Decompose \/ Connect \/ BeginQuery \/ SearchStep \/ ReturnRoute
SpecRoute == InitRoute /\ [][NextRoute]_vars

-----------------------------------------------------------------------------
(* util.Heap on its own: adds and pops of integers under util.compare, as *)
(* in testing.py 79-86                                                     *)

MaxElem == 3       \* the integers added are 1 .. MaxElem
HeapSize == 5      \* the size the heap is constructed with

Elems == 1..MaxElem

\* util.compare as the comparison of the heap
IntCompare == [p \in Elems \X Elems |-> compare(p[1], p[2])]

NoPop == [value |-> 0, before |-> <<>>]

\* heap = util.Heap(util.compare, HeapSize)
InitHeap ==
    /\ TreeOff
    /\ NavOff
    /\ heap = HeapNew(HeapSize)
    /\ last_pop = NoPop
    /\ cur_rect = <<>>
    /\ undo = <<>>
    /\ waypoints = <<>>
    /\ expanded = <<>>
    /\ walker = <<>>
    /\ roamer = <<>>

\* heap.add(x), the heap not full
HeapAddStep ==
    /\ ~HeapFull(heap)
    /\ \E x \in Elems : heap' = HeapAdd(heap, x, IntCompare)
    /\ last_pop' = NoPop
    /\ UNCHANGED <<treeVars, navVars, cur_rect, undo, waypoints, expanded, walker, roamer>>

\* heap.pop(), the heap not empty
HeapPopStep ==
    /\ ~HeapEmpty(heap)
    /\ last_pop' = [value |-> HeapPopValue(heap), before |-> heap.heap]
    /\ heap' = HeapPopRest(heap, IntCompare)
    /\ UNCHANGED <<treeVars, navVars, cur_rect, undo, waypoints, expanded, walker, roamer>>

NextHeap == HeapAddStep \/ HeapPopStep
SpecHeap == InitHeap /\ [][NextHeap]_vars

-----------------------------------------------------------------------------
(* util.Rect on its own: expand, and the expand by -delta that takes it   *)
(* back, as in testing.py 68-77 and _max_expansion (ai.py 855-862)         *)

MaxCoord == 2      \* x and y of the rectangles start in -1 .. MaxCoord
MaxSide == 2       \* width and height start in 0 .. MaxSide
MaxDelta == 2      \* delta is in 0 .. MaxDelta

StartRects ==
    {Rect(x, y, w, h) : x \in -1..MaxCoord, y \in -1..MaxCoord,
                        w \in 0..MaxSide, h \in 0..MaxSide}

NoUndo == [from |-> Rect(0, 0, 0, 0), d |-> -1, delta |-> 0, done |-> FALSE]

InitRect ==
    /\ TreeOff
    /\ NavOff
    /\ heap = <<>>
    /\ last_pop = <<>>
    /\ cur_rect \in StartRects
    /\ undo = NoUndo
    /\ waypoints = <<>>
    /\ expanded = <<>>
    /\ walker = <<>>
    /\ roamer = <<>>

\* rect.expand(d, delta)
RectExpandStep ==
    /\ cur_rect \in StartRects
    /\ undo.d = -1 \/ undo.done
    /\ \E d \in {NORTH, WEST, SOUTH, EAST}, delta \in 0..MaxDelta :
         /\ cur_rect' = Expand(cur_rect, d, delta)
         /\ undo' = [from |-> cur_rect, d |-> d, delta |-> delta, done |-> FALSE]
    /\ UNCHANGED <<treeVars, navVars, heap, last_pop, waypoints, expanded, walker, roamer>>

\* rect.expand(d, -delta) after rect.expand(d, delta)
RectRollbackStep ==
    /\ undo.d # -1
    /\ ~undo.done
    /\ cur_rect' = Expand(cur_rect, undo.d, -undo.delta)
    /\ undo' = [undo EXCEPT !.done = TRUE]
    /\ UNCHANGED <<treeVars, navVars, heap, last_pop, waypoints, expanded, walker, roamer>>

NextRect == RectExpandStep \/ RectRollbackStep
SpecRect == InitRect /\ [][NextRect]_vars

-----------------------------------------------------------------------------
(* HumanFollowPath: the route a walker is given, expanded tile by tile *)

TILE_SIZE == 32

\* util.tile_to_pixel
tile_to_pixel(pos) == <<pos[1] * TILE_SIZE, pos[2] * TILE_SIZE>>

\* util.pixel_to_tile
pixel_to_tile(pos) == <<pos[1] \div TILE_SIZE, pos[2] \div TILE_SIZE>>

\* util.find_difference
find_difference(pos1, pos2, absolute) ==
    LET diff == <<pos1[1] - pos2[1], pos1[2] - pos2[2]>>
    IN IF absolute
       THEN <<Min(Abs(diff[1]), Abs(diff[2])), Max(Abs(diff[1]), Abs(diff[2]))>>
       ELSE diff

\* the tiles the loop `for j in xrange(abs(diff))` adds for one axis (1 is the
\* first coordinate, 2 the second)
AxisTiles(t0, t1, axis) ==
    LET diff == t1[axis] - t0[axis] IN
    IF diff = 0 THEN <<>>
    ELSE LET delta == diff \div Abs(diff)
         IN [j \in 1..Abs(diff) |->
               IF axis = 1 THEN <<t0[1] + delta * (j - 1), t0[2]>>
                           ELSE <<t0[1], t0[2] + delta * (j - 1)>>]

\* the tiles one iteration of `for i in xrange(len(path) - 1)` adds
PairTiles(t0, t1) ==
    IF find_difference(t0, t1, TRUE) = <<0, 1>> THEN <<t0>>
    ELSE LET difference == find_difference(t1, t0, FALSE)
             axes == IF Abs(difference[1]) >= Abs(difference[2]) THEN <<1, 2>> ELSE <<2, 1>>
         IN AxisTiles(t0, t1, axes[1]) \o AxisTiles(t0, t1, axes[2])

\* self._path after the iterations i, i + 1, ... of the loop
RECURSIVE InterpolateFrom(_, _)
InterpolateFrom(path, i) ==
    IF i > Len(path) - 1 THEN <<>>
    ELSE LET tiles == PairTiles(path[i], path[i + 1])
         IN [k \in 1..Len(tiles) |-> tile_to_pixel(tiles[k])] \o InterpolateFrom(path, i + 1)

\* besides the fields of the task: what its latest process() got from the
\* child (state), returned (ret) and whether it called controller.halt(), and
\* the number of results other than RUNNING the child has given so far
NotBuilt ==
    [status |-> "none", _path |-> <<>>, _index |-> 0, target |-> None,
     state |-> NoCall, ret |-> NoCall, halts |-> FALSE, results |-> 0]

\* HumanFollowPath.__init__(controller, path): the fields of the new task, or
\* the IndexError of self._path[len(self._path) - 1] on an empty list
FollowPathInit(path) ==
    LET added == InterpolateFrom(path, 1) IN
    IF added = <<>>
    THEN [NotBuilt EXCEPT !.status = "IndexError"]
    ELSE LET _path == IF added[Len(added)] # path[Len(path)]
                      THEN Append(added, tile_to_pixel(path[Len(path)]))
                      ELSE added
         IN [NotBuilt EXCEPT !.status = "ok", !._path = _path, !.target = _path[1]]

\* HumanFollowPath.process with the test self._index > len(self._path)
HumanFollowPathProcessLate(e, state) ==
    IF state # RUNNING
    THEN LET _index == e._index + 1 IN
         IF _index > Len(e._path)
         THEN [e EXCEPT !._index = _index, !.state = state, !.results = @ + 1,
                        !.halts = TRUE, !.ret = SUCCESS]
         ELSE [e EXCEPT !._index = _index, !.state = state, !.results = @ + 1,
                        !.target = IF _index + 1 <= Len(e._path) THEN e._path[_index + 1] ELSE None,
                        !.halts = FALSE, !.ret = RUNNING]
    ELSE [e EXCEPT !.state = state, !.halts = FALSE, !.ret = RUNNING]

\* HumanFollowPath.process, state being what self.child.process() returned
HumanFollowPathProcess(e, state) ==
    IF state # RUNNING
    THEN LET _index == e._index + 1 IN
         IF _index >= Len(e._path)
         THEN [e EXCEPT !._index = _index, !.state = state, !.results = @ + 1,
                        !.halts = TRUE, !.ret = SUCCESS]
         ELSE [e EXCEPT !._index = _index, !.state = state, !.results = @ + 1,
                        !.target = e._path[_index + 1],
                        !.halts = FALSE, !.ret = RUNNING]
    ELSE [e EXCEPT !.state = state, !.halts = FALSE, !.ret = RUNNING]

MaxTile == 2
MaxRoute == 3

RouteTiles == (0..MaxTile) \X (0..MaxTile)

\* the routes of two tiles or more
InputRoutes == UNION {[1..n -> RouteTiles] : n \in 2..MaxRoute}

InitFollow ==
    /\ TreeOff
    /\ NavOff
    /\ heap = <<>>
    /\ last_pop = <<>>
    /\ cur_rect = <<>>
    /\ undo = <<>>
    /\ waypoints = <<>>
    /\ expanded = NotBuilt
    /\ walker = <<>>
    /\ roamer = <<>>

\* HumanFollowPath(controller, path)
FollowConstruct ==
    /\ expanded.status = "none"
    /\ \E path \in InputRoutes :
         /\ waypoints' = path
         /\ expanded' = FollowPathInit(path)
    /\ UNCHANGED <<treeVars, navVars, heap, last_pop, cur_rect, undo, walker, roamer>>

\* HumanFollowPath.process in a tick, until the task has returned SUCCESS;
\* the child returns RUNNING, SUCCESS or FAILURE
FollowProcess ==
    /\ expanded.status = "ok"
    /\ expanded.ret # SUCCESS
    /\ \E state \in States : expanded' = HumanFollowPathProcess(expanded, state)
    /\ UNCHANGED <<treeVars, navVars, heap, last_pop, cur_rect, undo, waypoints, walker, roamer>>

\* the task is dropped
FollowDiscard ==
    /\ expanded.status # "none"
    /\ waypoints' = <<>>
    /\ expanded' = NotBuilt
    /\ UNCHANGED <<treeVars, navVars, heap, last_pop, cur_rect, undo, walker, roamer>>

NextFollow == FollowConstruct \/ FollowProcess \/ FollowDiscard
SpecFollow == InitFollow /\ [][NextFollow]_vars

-----------------------------------------------------------------------------
(* HumanWalkToLocation (ai.py 1401-1448) and the entity it moves.  The      *)
(* entity is followed tile by tile; `near` is the test distance <=          *)
(* threshold, which can hold only on the target tile.                       *)

NoDirection == -1       \* Python None where a direction is expected

\* Direction.get_direction_between
get_direction_between(p1, p2) ==
    LET direction == DirectionOffset(p1, p2) IN
    IF direction = <<0, 0>> THEN NoDirection
    ELSE (CHOOSE k \in 1..Len(SURROUNDING_OFFSETS) : SURROUNDING_OFFSETS[k] = direction) - 1

\* HumanWalkToLocation._find_appropriate_target
FindAppropriateTarget(_target_location) ==
    <<_target_location[1] + TILE_SIZE \div 2, _target_location[2] + TILE_SIZE \div 2>>

\* HumanWalkToLocation.set_target_tile; the new target has no issued direction
SetTargetTile(w, tile) ==
    [w EXCEPT !._target_location = tile, !._last_direction = NoDirection,
              !.issued = NoDirection, !.before = NoDirection,
              !.resolved = NoDirection, !.moved = <<>>, !.ret = NoCall]

\* HumanWalkToLocation.process; near is distance <= threshold.  The fields
\* before, resolved, moved and ret tell what the call did: the direction
\* issued for this target before the call, the direction resolved, the
\* move_in_direction calls made, the value returned
WalkProcess(w, near) ==
    LET target == FindAppropriateTarget(w._target_location)
        w0 == [w EXCEPT !.before = w.issued, !.moved = <<>>, !.resolved = NoDirection]
    IN IF near
       THEN [w0 EXCEPT !.tile = pixel_to_tile(w._target_location), !.ret = SUCCESS]
       ELSE LET direction == get_direction_between(w.tile, pixel_to_tile(target)) IN
            IF direction = NoDirection
               \/ (direction # w._last_direction /\ w._last_direction # NoDirection)
            THEN [w0 EXCEPT !.resolved = direction, !.ret = RUNNING]
            ELSE [w0 EXCEPT !.resolved = direction, !.moved = <<direction>>,
                            !.issued = direction, !.pressed = direction,
                            !.ret = RUNNING]

MaxWalk == 2

WalkTiles == (0..MaxWalk) \X (0..MaxWalk)

\* HumanWalkToLocation.__init__(controller, None), then set_target_tile by
\* the HumanFollowPath that owns the task; the entity stands on any tile
InitWalk ==
    /\ TreeOff
    /\ NavOff
    /\ heap = <<>>
    /\ last_pop = <<>>
    /\ cur_rect = <<>>
    /\ undo = <<>>
    /\ waypoints = <<>>
    /\ expanded = <<>>
    /\ roamer = <<>>
    /\ \E tile \in WalkTiles, target \in WalkTiles :
         walker = [tile |-> tile, _target_location |-> tile_to_pixel(target),
                   _last_direction |-> NoDirection, pressed |-> NoDirection,
                   issued |-> NoDirection, before |-> NoDirection,
                   resolved |-> NoDirection, moved |-> <<>>, ret |-> NoCall]

\* set_target_tile(next_goal) from HumanFollowPath.process
WalkSetTarget ==
    /\ \E target \in WalkTiles : walker' = SetTargetTile(walker, tile_to_pixel(target))
    /\ UNCHANGED <<treeVars, navVars, heap, last_pop, cur_rect, undo, waypoints, expanded, roamer>>

\* process() in a tick
WalkTick ==
    /\ \E near \in {b \in BOOLEAN : b => walker.tile = pixel_to_tile(walker._target_location)} :
         walker' = WalkProcess(walker, near)
    /\ UNCHANGED <<treeVars, navVars, heap, last_pop, cur_rect, undo, waypoints, expanded, roamer>>

\* the entity moves on to the next tile in the direction of the pressed key
EntityMove ==
    /\ walker.pressed # NoDirection
    /\ add_direction(walker.tile, walker.pressed, 1) \in WalkTiles
    /\ walker' = [walker EXCEPT !.tile = add_direction(walker.tile, walker.pressed, 1)]
    /\ UNCHANGED <<treeVars, navVars, heap, last_pop, cur_rect, undo, waypoints, expanded, roamer>>

NextWalk == WalkSetTarget \/ WalkTick \/ EntityMove
SpecWalk == InitWalk /\ [][NextWalk]_vars

-----------------------------------------------------------------------------
(* HumanRoam.init (ai.py 1514-1527) on a built graph: the loop that samples *)
(* a goal and asks find_walking_path for a route to it.  The child it       *)
(* builds is kept in waypoints (the route) and expanded (the task).         *)

NoRoam == [phase |-> "new", tile |-> None, goal |-> None]

\* the world after loading; no HumanRoam.init has been called
InitRoam ==
    /\ TreeOff
    /\ heap = <<>>
    /\ last_pop = <<>>
    /\ cur_rect = <<>>
    /\ undo = <<>>
    /\ walker = <<>>
    /\ waypoints = <<>>
    /\ expanded = NotBuilt
    /\ roamer = NoRoam
    /\ grid \in [Tiles -> {PAVEMENT, ROAD, GRASS}]
    /\ pc = "new"
    /\ positions = {}
    /\ rects = <<>>
    /\ graph = <<>>
    /\ query = NoQuery
    /\ frontier = <<>>
    /\ came_from = <<>>
    /\ costs = <<>>
    /\ route = NoRoute

\* init() entered: current_tile = entity.get_current_tile(), path = None
RoamBegin ==
    /\ pc = "idle"
    /\ roamer.phase = "new"
    /\ \E tile \in Tiles : roamer' = [phase |-> "sampling", tile |-> tile, goal |-> None]
    /\ UNCHANGED <<treeVars, navVars, heap, last_pop, cur_rect, undo, waypoints, expanded, walker>>

\* goal = random.choice(graph.keys()) gives goal; `continue` if it is the
\* current tile
RoamSample(goal) ==
    /\ roamer.phase = "sampling"
    /\ goal \in Nodes
    /\ roamer' = [roamer EXCEPT !.goal = goal,
                                !.phase = IF goal = roamer.tile THEN "sampling" ELSE "sampled"]
    /\ UNCHANGED <<treeVars, navVars, heap, last_pop, cur_rect, undo, waypoints, expanded, walker>>

\* random.choice of an empty list raises IndexError
RoamSampleNothing ==
    /\ roamer.phase = "sampling"
    /\ Nodes = {}
    /\ roamer' = [roamer EXCEPT !.phase = "raised"]
    /\ UNCHANGED <<treeVars, navVars, heap, last_pop, cur_rect, undo, waypoints, expanded, walker>>

\* find_walking_path(current_tile, goal) is called
RoamQuery ==
    /\ roamer.phase = "sampled"
    /\ pc = "idle"
    /\ StartQuery(roamer.tile, roamer.goal,
                  FindNearestNode(grid, Nodes, roamer.tile, PAVEMENT),
                  FindNearestNode(grid, Nodes, roamer.goal, PAVEMENT))
    /\ roamer' = [roamer EXCEPT !.phase = "querying"]
    /\ UNCHANGED <<grid, positions, rects, graph, treeVars,
                   heap, last_pop, cur_rect, undo, waypoints, expanded, walker>>

\* find_walking_path has ended: its exception leaves init; None goes round
\* the loop again; a route ends the loop and
\* self.child = HumanFollowPath(self._controller, path)
RoamTake ==
    /\ roamer.phase = "querying"
    /\ pc \in {"done", "crashed"}
    /\ IF pc = "crashed"
       THEN /\ roamer' = [roamer EXCEPT !.phase = "raised"]
            /\ UNCHANGED <<pc, query, route, waypoints, expanded>>
       ELSE /\ pc' = "idle"
            /\ query' = NoQuery
            /\ route' = NoRoute
            /\ IF route.status = "route"
               THEN /\ waypoints' = route.path
                    /\ expanded' = FollowPathInit(route.path)
                    /\ roamer' = [roamer EXCEPT !.phase =
                                    IF expanded'.status = "ok" THEN "returned" ELSE "raised"]
               ELSE /\ roamer' = [roamer EXCEPT !.phase = "sampling"]
                    /\ UNCHANGED <<waypoints, expanded>>
    /\ UNCHANGED <<grid, positions, rects, graph, frontier, came_from, costs, treeVars,
                   heap, last_pop, cur_rect, undo, walker>>

RoamSampleAny == \E goal \in Tiles : RoamSample(goal)

NextRoam ==
    \/ BeginGenerate \/ Decompose \/ Connect
    \/ RoamBegin \/ RoamSampleAny \/ RoamSampleNothing \/ RoamQuery \/ SearchStep \/ RoamTake

SpecRoam == InitRoam /\ [][NextRoam]_vars

-----------------------------------------------------------------------------
(* Properties of the behaviour tree engine *)

\* the tasks the tree is processing: the root, and below each of them the top
\* of its children_stack or its decorated child
RECURSIVE ActiveChain(_)
ActiveChain(i) ==
    {i} \cup
    (IF Kind(i) \in Composites
     THEN (IF children_stack[i] = <<>> THEN {} ELSE ActiveChain(Top(children_stack[i])))
     ELSE IF Kind(i) \in Decorators THEN ActiveChain(Child(i))
     ELSE {})

\* task i returned SUCCESS or FAILURE in the latest handler and was not
\* initialised again since
Completed(i) == procs[i] >= 1 /\ ret[i] \in {SUCCESS, FAILURE}

\* C1: every activation of a task is closed by exactly one end(): after each
\* set_root / tick no task was initialised twice without an end() in between,
\* no end() ran on a task that was not open, and every task below the root
\* that is still open (init() without end()) is one the tree is still
\* processing and has not completed.
C1_ActivationsClosed ==
    ~crashed =>
      /\ ~bad_end
      /\ \A i \in Tasks :
           /\ opens[i] <= 1
           /\ (i # root /\ opens[i] = 1) => (i \in ActiveChain(root) /\ ~Completed(i))

\* C2: every process() call runs on a task with exactly one init() since its
\* creation or its last end() (the HumanFollowPath of a HumanRoam included).
C2_ProcessAfterOneInit == ~bad_proc

\* C3: on the first tick of an activation of a Sequence over [A, B, ..], if A
\* returns FAILURE then the Sequence returns FAILURE on that tick and of its
\* children only A has been initialised in this activation.
C3_SequenceShortCircuit ==
    \A s \in Tasks :
      (/\ Kind(s) = "Sequence" /\ Len(Kids(s)) >= 2
       /\ ret[s] # NoCall /\ procs[s] = 1
       /\ ret[Kids(s)[1]] = FAILURE)
      => (ret[s] = FAILURE /\ child_inits[s] = {Kids(s)[1]})

C3_Witness ==
    \E s \in Tasks :
      /\ Kind(s) = "Sequence" /\ Len(Kids(s)) >= 2
      /\ ret[s] = FAILURE /\ procs[s] = 1
      /\ ret[Kids(s)[1]] = FAILURE
      /\ opens[Kids(s)[2]] = 0

\* C4: a Selector over [A, B] returns RUNNING on the tick on which A fails
\* (A is ended, B is initialised) and SUCCESS on the tick on which B, being
\* processed, succeeds.
C4_SelectorFallthrough ==
    \A s \in Tasks :
      (Kind(s) = "Selector" /\ Len(Kids(s)) >= 2 /\ ret[s] # NoCall) =>
        /\ (procs[s] = 1 /\ ret[Kids(s)[1]] = FAILURE) => ret[s] = RUNNING
        /\ ret[Kids(s)[2]] = SUCCESS => ret[s] = SUCCESS

\* C5 as claimed: a Repeater built with repeat_times = 2 whose child has so
\* far always returned SUCCESS returns RUNNING on the child's first and
\* second completion and SUCCESS on the third.
C5_RepeaterThirdCompletion ==
    \A r \in Tasks :
      (Kind(r) = "Repeater" /\ tree.repeat[r] = 2 /\ ret[r] # NoCall) =>
        /\ succ_run[r] \in {1, 2} => ret[r] = RUNNING
        /\ succ_run[r] = 3 => ret[r] = SUCCESS

\* C5 amended: such a Repeater returns RUNNING on the child's first
\* completion and SUCCESS on the second.
C5_RepeaterSecondCompletion ==
    \A r \in Tasks :
      (Kind(r) = "Repeater" /\ tree.repeat[r] = 2 /\ ret[r] # NoCall) =>
        /\ succ_run[r] = 1 => ret[r] = RUNNING
        /\ succ_run[r] = 2 => ret[r] = SUCCESS

C5_Witness ==
    \E r \in Tasks :
      /\ Kind(r) = "Repeater" /\ tree.repeat[r] = 2
      /\ succ_run[r] = 2 /\ ret[r] = SUCCESS /\ repeat_times[r] = 0

-----------------------------------------------------------------------------
(* Properties of the decomposition and of the graph *)

PavementTiles == {t \in Tiles : grid[t] = PAVEMENT}

\* the tiles of the regions recorded so far
Covered(n) == UNION {RectTiles(rects[k]) : k \in 1..n}

\* the rectangle holds a tile that is out of range or not of the blocktype
HasForeignTile(r) ==
    \E t \in RectTiles(r) : ~is_in_range(t[1], t[2]) \/ grid[t] # PAVEMENT

Overlapping ==
    \E i, j \in 1..Len(rects) : i < j /\ RectTiles(rects[i]) \cap RectTiles(rects[j]) # {}

\* C6 as stated: the regions recorded by the decomposition loop are pairwise
\* disjoint, so that every tile of the blocktype lies in exactly one region.
C6_RegionsDisjoint ==
    pc = "decompose" =>
      \A i, j \in 1..Len(rects) :
        i < j => RectTiles(rects[i]) \cap RectTiles(rects[j]) = {}

\* C6 amended: regions may overlap, but every recorded region holds a tile
\* that no region recorded before it holds (the pending tile it grew from),
\* and the tiles still pending are the tiles of the blocktype that no recorded
\* region holds.
C6_RegionsAddNewTile ==
    pc = "decompose" =>
      /\ \A j \in 1..Len(rects) : RectTiles(rects[j]) \ Covered(j - 1) # {}
      /\ positions = PavementTiles \ Covered(Len(rects))

\* two recorded regions share a tile
C6_Witness == pc = "decompose" /\ positions = {} /\ Overlapping

\* C7: the decomposition loop terminates (every iteration takes at least
\* one tile out of the finite set of pending tiles), no recorded region ever
\* holds a tile that is out of range or of another blocktype, and when the
\* loop has ended the union of the recorded regions is exactly the set of the
\* in-range tiles of the blocktype.
C7_DecompositionCovers ==
    /\ [](pc = "decompose" =>
            /\ Covered(Len(rects)) \subseteq PavementTiles
            /\ positions = {} => Covered(Len(rects)) = PavementTiles)
    /\ [][pc = "decompose" /\ pc' = "decompose" =>
            /\ positions' \subseteq positions
            /\ positions' # positions]_vars

\* the loop has ended with several regions on a grid that also has tiles of
\* other blocktypes
C7_Witness ==
    /\ pc = "decompose" /\ positions = {}
    /\ Len(rects) >= 2
    /\ PavementTiles # Tiles
    /\ Covered(Len(rects)) = PavementTiles

\* C8: every recorded region is maximal: grown by one tile in any of the
\* four directions it would hold a tile that is out of range or of another
\* blocktype.
C8_RegionsMaximal ==
    pc = "decompose" =>
      \A k \in 1..Len(rects) : \A d \in {NORTH, WEST, SOUTH, EAST} :
        HasForeignTile(Expand(rects[k], d, 1))

\* a recorded region that grew to the south after its growth to the west had
\* failed: the tiles west of it are in range and not all of another blocktype
C8_Witness ==
    /\ pc = "decompose"
    /\ \E k \in 1..Len(rects) :
         LET r == rects[k]
             strip == RectTiles(Expand(r, WEST, 1)) \ RectTiles(r)
         IN /\ r.height >= 2
            /\ strip \subseteq Tiles
            /\ strip \cap PavementTiles # {}
            /\ strip \ PavementTiles # {}

\* C9: in the built graph, every entry (B, w) of a node A has the entry
\* (A, w) in B's edge set.
C9_GraphSymmetric ==
    pc \notin {"new", "decompose"} =>
      \A a \in DOMAIN graph : \A e \in graph[a] :
        /\ e[1] \in DOMAIN graph
        /\ <<a, e[2]>> \in graph[e[1]]

\* the built graph has a node with two edges, one of them across a road
C9_Witness ==
    /\ pc = "idle"
    /\ \E a \in DOMAIN graph :
         /\ Cardinality(graph[a]) >= 2
         /\ \E e \in graph[a] : e[2] > ROAD_WEIGHT

-----------------------------------------------------------------------------
(* Properties of the routes *)

CardinalAdjacent(a, b) == Abs(a[1] - b[1]) + Abs(a[2] - b[2]) = 1

\* C10 as stated: every two consecutive tiles of a returned route are
\* cardinal-adjacent.
C10_RouteStepsAdjacent ==
    route.status = "route" =>
      \A k \in 1..(Len(route.path) - 1) :
        CardinalAdjacent(route.path[k], route.path[k + 1])

\* C10 amended: consecutive tiles of the prefix segment and of the suffix
\* segment are cardinal-adjacent; consecutive tiles of the graph segment are
\* two different nodes joined by an edge of the graph, on one row or one
\* column, any number of tiles apart.
C10_RouteStepsAdjacentOrEdge ==
    route.status = "route" =>
      \A k \in 1..(Len(route.path) - 1) :
        LET a == route.path[k]
            b == route.path[k + 1]
        IN IF k < route.prefix_len \/ k >= route.prefix_len + route.main_len - 1
           THEN CardinalAdjacent(a, b)
           ELSE /\ a # b
                /\ a \in DOMAIN graph
                /\ \E e \in graph[a] : e[1] = b
                /\ a[1] = b[1] \/ a[2] = b[2]

\* a returned route with a prefix step, and a graph step of two tiles
C10_Witness ==
    /\ route.status = "route"
    /\ route.prefix_len >= 2
    /\ \E k \in route.prefix_len..(route.prefix_len + route.main_len - 2) :
         ~CardinalAdjacent(route.path[k], route.path[k + 1])

\* C11: a returned route begins at src and ends at dest, also when src or
\* dest is itself a node and when start_node and end_node are one node.
C11_RouteEnds ==
    route.status = "route" =>
      /\ Len(route.path) >= 1
      /\ route.path[1] = query.src
      /\ route.path[Len(route.path)] = query.dest

\* a returned route on which start_node and end_node are one node, dest is
\* that node and src is another tile
C11_Witness ==
    /\ route.status = "route"
    /\ query.start_node = query.end_node
    /\ query.dest = query.end_node
    /\ query.src # query.start_node

\* C12: in a world whose graph has exactly one node, find_walking_path from
\* that node to a tile of the pavement returns a route and raises no error.
C12_SingleNodeRoute ==
    /\ pc \in {"done", "crashed"}
    /\ Cardinality(Nodes) = 1
    /\ query.src \in Nodes
    /\ grid[query.dest] = PAVEMENT
    => route.status = "route"

\* C13: every find_walking_path ends by returning a route or by returning
\* None; no error is ever raised.
C13_RouteOrNone ==
    pc \in {"done", "crashed"} => route.status \in {"route", "None"}

-----------------------------------------------------------------------------
(* Properties of BehaviourTree.set_root *)

\* the calls of log from the k-th on hold no end()
NoEndFrom(log, k) == \A j \in k..Len(log) : log[j][1] # "end"

\* the place of the first init() in log, Len(log) + 1 if there is none
FirstInit(log) ==
    IF \E k \in 1..Len(log) : log[k][1] = "init"
    THEN CHOOSE k \in 1..Len(log) :
           log[k][1] = "init" /\ \A j \in 1..(k - 1) : log[j][1] # "init"
    ELSE Len(log) + 1

\* C14: set_root(new) with a previous root calls end() on that root first
\* (which may end tasks below it), then new.init(), the first init() of the
\* handler, and no end() after that; the set_root of the constructor, which
\* has no previous root, calls new.init() and no end().
C14_SetRootEndsThenInits ==
    /\ (/\ Len(calls) >= 2
        /\ calls[1] = <<"set_root", root>>
        /\ calls[2] = <<"init", root>>
        /\ NoEndFrom(calls, 1))
    /\ [][(calls' # <<>> /\ calls'[1][1] = "set_root") =>
            LET k == FirstInit(calls') IN
            /\ calls'[1] = <<"set_root", root'>>
            /\ Len(calls') >= 3
            /\ calls'[2] = <<"end", root>>
            /\ \A j \in 2..(k - 1) : calls'[j][1] = "end"
            /\ k <= Len(calls')
            /\ calls'[k] = <<"init", root'>>
            /\ NoEndFrom(calls', k)]_vars

\* set_root has replaced a root by another task
C14_Witness ==
    /\ Len(calls) >= 3
    /\ calls[1] = <<"set_root", root>>
    /\ calls[2][1] = "end"
    /\ calls[2][2] # root
    /\ calls[FirstInit(calls)] = <<"init", root>>
    /\ FirstInit(calls) > 3

-----------------------------------------------------------------------------
(* Properties of util.Heap *)

\* the number of times x occurs in the sequence q
Count(q, x) == Cardinality({k \in 1..Len(q) : q[k] = x})

\* C15: pop() returns an element that is greatest under the comparison among
\* the elements the heap held, and removes exactly one occurrence of it.
C15_PopGreatest ==
    last_pop # NoPop =>
      /\ \A k \in 1..Len(last_pop.before) :
           IntCompare[<<last_pop.before[k], last_pop.value>>] <= 0
      /\ \A x \in Elems :
           Count(heap.heap, x) =
             Count(last_pop.before, x) - (IF x = last_pop.value THEN 1 ELSE 0)

-----------------------------------------------------------------------------
(* Properties of util.Rect *)

\* C16: for a Rect of non-negative width and height, a direction d and a
\* delta >= 0, expand(d, delta) followed by expand(d, -delta) restores x, y,
\* width and height.
C16_ExpandRollsBack ==
    undo.done =>
      /\ cur_rect.x = undo.from.x
      /\ cur_rect.y = undo.from.y
      /\ cur_rect.width = undo.from.width
      /\ cur_rect.height = undo.from.height

\* an expand to the north or west by a delta of at least 1 was rolled back
C16_Witness ==
    /\ undo.done
    /\ undo.delta >= 1
    /\ is_negative(undo.d)
    /\ cur_rect = undo.from

-----------------------------------------------------------------------------
(* Properties of the route search *)

\* C17: the node a pop of the frontier returns is one whose straight-line
\* distance to the goal is smallest among the nodes in the frontier.
C17_PopsNearestToGoal ==
    (pc = "search" /\ ~HeapEmpty(frontier)) =>
      \A k \in 1..Len(frontier.heap) :
        distance_sqrd(HeapPopValue(frontier), query.end_node)
          <= distance_sqrd(frontier.heap[k], query.end_node)

\* the nodes that a walk along edges of the graph g reaches from the set S
RECURSIVE ReachableFrom(_, _)
ReachableFrom(g, S) ==
    LET more == S \cup {e[1] : e \in UNION {g[n] : n \in S}}
    IN IF more = S THEN S ELSE ReachableFrom(g, more)

\* _find_path was called: both nearest-node lookups of the query found a node
PathSearched ==
    /\ pc \in {"done", "crashed"}
    /\ query.start_node # None
    /\ query.end_node # None

\* C18: _find_path(start, goal) ends, with a node path when goal can be
\* reached from start along edges of the graph and with None when it cannot.
C18_PathIffReachable ==
    PathSearched =>
      IF query.end_node \in ReachableFrom(graph, {query.start_node})
      THEN route.status = "route"
      ELSE route.status = "None"

\* the same, for the calls that Heap.add lets through
C18_PathIffReachableUnlessFull ==
    (PathSearched /\ pc = "done") =>
      IF query.end_node \in ReachableFrom(graph, {query.start_node})
      THEN route.status = "route"
      ELSE route.status = "None"

\* C19: a path _find_path returns starts at start and ends at goal, holds no
\* node twice, and every two consecutive nodes of it are joined by an edge of
\* the graph; the walk back over came_from that builds it never cycles.
C19_PathIsSimpleWalk ==
    /\ route.status # "loops"
    /\ route.status = "route" =>
         LET path == route.main_path IN
         /\ Len(path) >= 1
         /\ path[1] = query.start_node
         /\ path[Len(path)] = query.end_node
         /\ \A a, b \in 1..Len(path) : a # b => path[a] # path[b]
         /\ \A k \in 1..(Len(path) - 1) : \E e \in graph[path[k]] : e[1] = path[k + 1]

\* a returned path of three nodes: the walk back took two steps
C19_Witness ==
    /\ pc = "done"
    /\ route.status = "route"
    /\ Len(route.main_path) >= 3

-----------------------------------------------------------------------------
(* Properties of HumanFollowPath *)

\* the expanded route, as tiles
ExpandedTiles == [k \in 1..Len(expanded._path) |-> pixel_to_tile(expanded._path[k])]

\* C20: for an input route of two tiles or more, the expanded route the
\* constructor of HumanFollowPath builds starts at the first input tile, ends
\* at the last one, and every two consecutive tiles of it are cardinal-adjacent.
C20_ExpandedRouteWalkable ==
    waypoints # <<>> =>
      /\ expanded.status = "ok"
      /\ ExpandedTiles[1] = waypoints[1]
      /\ ExpandedTiles[Len(ExpandedTiles)] = waypoints[Len(waypoints)]
      /\ \A k \in 1..(Len(ExpandedTiles) - 1) :
           CardinalAdjacent(ExpandedTiles[k], ExpandedTiles[k + 1])

\* every two consecutive tiles of the input route differ, on one axis only
StraightLegs(path) ==
    \A k \in 1..(Len(path) - 1) :
      /\ path[k] # path[k + 1]
      /\ path[k][1] = path[k + 1][1] \/ path[k][2] = path[k + 1][2]

\* the same, for the input routes whose legs are straight
C20_StraightRouteWalkable ==
    (waypoints # <<>> /\ StraightLegs(waypoints)) =>
      /\ expanded.status = "ok"
      /\ ExpandedTiles[1] = waypoints[1]
      /\ ExpandedTiles[Len(ExpandedTiles)] = waypoints[Len(waypoints)]
      /\ \A k \in 1..(Len(ExpandedTiles) - 1) :
           CardinalAdjacent(ExpandedTiles[k], ExpandedTiles[k + 1])

-----------------------------------------------------------------------------
(* Properties of the queries on the built graph *)

\* C28: once generate_graph has completed, no step of a nearest-node lookup,
\* of a route search or of find_walking_path changes the graph: the node set
\* and every node's set of (neighbour, weight) edges stay as they were,
\* whether the call returns a route or None.
C28_QueriesLeaveGraph ==
    [][(pc \in {"idle", "search", "done", "crashed"}) => (graph' = graph)]_vars

\* a query on a graph with edges has returned a route over two nodes or more
C28_Witness ==
    /\ pc = "done"
    /\ route.status = "route"
    /\ Len(route.main_path) >= 2
    /\ \E n \in DOMAIN graph : graph[n] # {}

\* C29: during a route search the frontier, sized to the number of nodes of
\* the graph, never overflows: no frontier.add, of the start or of a node
\* whose cost improved, ends in "Heap is full", whatever the size of the
\* graph, a single node included.
C29_FrontierNeverFull ==
    (pc \in {"search", "done", "crashed"} /\ query.start_node # None /\ query.end_node # None)
      => route.status # "error"

\* C30: when the graph has a node, the nearest-node lookup for an in-range
\* tile, on the pavement or off it, returns a node of the graph and never
\* None, also when the expansion restricted to the pavement grew beyond 1x1
\* without meeting a node.
C30_NearestNodeFound ==
    (pc \in {"search", "done", "crashed"} /\ Nodes # {}) =>
      /\ query.start_node \in Nodes
      /\ query.end_node \in Nodes

\* a lookup from a tile off the pavement and a lookup from a pavement tile
\* that is no node have both found a node
C30_Witness ==
    /\ pc \in {"search", "done", "crashed"}
    /\ grid[query.src] # PAVEMENT
    /\ query.start_node \in Nodes
    /\ grid[query.dest] = PAVEMENT
    /\ query.dest \notin Nodes
    /\ query.end_node \in Nodes

-----------------------------------------------------------------------------
(* Properties of the composites and decorators *)

\* C24: a process() call on a Sequence, Selector, Inverter, Succeeder or
\* Repeater whose children returned only RUNNING, SUCCESS or FAILURE returns
\* one of RUNNING, SUCCESS or FAILURE itself.
C24_ReturnsAState ==
    \A i \in Tasks :
      (/\ Kind(i) \in Composites \cup Decorators
       /\ ret[i] # NoCall
       /\ \A c \in Tasks : Parent(c) = i => ret[c] \in States \cup {NoCall})
      => ret[i] \in States

\* the children of composite s still pending are its last children, in order
\* with the earliest on top: s was initialised on an empty stack and has
\* advanced child by child since
InOrder(s) ==
    LET n == Len(Kids(s))
        m == Len(children_stack[s])
    IN /\ m >= 1
       /\ m <= n
       /\ children_stack[s] = Reversed(SubSeq(Kids(s), n - m + 1, n))

\* the position of the call <<what, i>> in the log, 0 if it is not there
CallAt(log, what, i) ==
    IF \E k \in 1..Len(log) : log[k] = <<what, i>>
    THEN CHOOSE k \in 1..Len(log) : log[k] = <<what, i>>
    ELSE 0

\* the handler of the log called end() or init() on task i
Restarted(log, i) == CallAt(log, "end", i) # 0 \/ CallAt(log, "init", i) # 0

\* C25: a Sequence over c1..cn initialises only c1 when it is activated; a
\* tick processes its earliest pending child ci and no other; if ci returns
\* SUCCESS and i < n, the Sequence calls ci.end(), then c(i+1).init(), does
\* not process c(i+1) in that tick and returns RUNNING; it returns SUCCESS
\* exactly on the tick where cn returns SUCCESS.  (The first part is stated
\* of the handler that activates it; its stack is compared unless a task
\* above it ended or restarted it later in the same tick.)
C25_SequenceInOrder ==
    /\ [](\A s \in Tasks :
            (/\ Kind(s) = "Sequence" /\ CallAt(calls, "init", s) # 0
             /\ opens[s] = 1 /\ procs[s] = 0 /\ InOrder(s) /\ ~crashed)
              => child_inits[s] = {Kids(s)[1]})
    /\ [][\A s \in Tasks :
            (Kind(s) = "Sequence" /\ InOrder(s) /\ ret'[s] # NoCall /\ ~crashed') =>
              LET n == Len(Kids(s))
                  i == n - Len(children_stack[s]) + 1
                  ci == Kids(s)[i]
              IN /\ ret'[ci] # NoCall
                 /\ \A c \in Tasks : (Parent(c) = s /\ c # ci) => ret'[c] = NoCall
                 /\ (ret'[ci] = SUCCESS /\ i < n) =>
                      /\ ret'[s] = RUNNING
                      /\ Restarted(calls', s) \/ children_stack'[s] = Pop(children_stack[s])
                      /\ CallAt(calls', "end", ci) # 0
                      /\ CallAt(calls', "end", ci) < CallAt(calls', "init", Kids(s)[i + 1])
                      /\ CallAt(calls', "process", Kids(s)[i + 1]) = 0
                 /\ ret'[ci] # SUCCESS =>
                      /\ ret'[s] = ret'[ci]
                      /\ Restarted(calls', s) \/ children_stack'[s] = children_stack[s]
                 /\ ret'[s] = SUCCESS <=> (i = n /\ ret'[ci] = SUCCESS)]_vars

\* a Sequence over two children has just ended the first, which returned
\* SUCCESS, initialised the second and returned RUNNING
C25_Witness ==
    \E s \in Tasks :
      /\ Kind(s) = "Sequence" /\ Len(Kids(s)) = 2
      /\ ret[Kids(s)[1]] = SUCCESS
      /\ ret[s] = RUNNING
      /\ children_stack[s] = <<Kids(s)[2]>>
      /\ opens[Kids(s)[1]] = 0
      /\ opens[Kids(s)[2]] = 1
      /\ ~crashed

\* the log holds a call <<"end", i>> and, after it, a call <<"init", i>>
EndThenInit(log, i) ==
    \E a, b \in 1..Len(log) :
      /\ a < b
      /\ log[a] = <<"end", i>>
      /\ log[b] = <<"init", i>>
      /\ \A k \in 1..(a - 1) : log[k] # <<"init", i>>

\* C26: a Repeater never returns FAILURE and, built with the default
\* repeat_times = -1, never SUCCESS: on every tick where its child returns
\* SUCCESS or FAILURE it calls child.end(), then child.init(), and returns
\* RUNNING.
C26_RepeaterRestarts ==
    /\ [](\A r \in Tasks :
            Kind(r) = "Repeater" =>
              /\ ret[r] # FAILURE
              /\ tree.repeat[r] = -1 => ret[r] # SUCCESS)
    /\ [][\A r \in Tasks :
            (/\ Kind(r) = "Repeater" /\ tree.repeat[r] = -1
             /\ ret'[r] # NoCall /\ ~crashed'
             /\ ret'[Child(r)] \in {SUCCESS, FAILURE})
            => /\ ret'[r] = RUNNING
               /\ EndThenInit(calls', Child(r))]_vars

\* a Repeater with repeat_times = -1 has restarted its child, which had
\* returned FAILURE, and has returned RUNNING
C26_Witness ==
    \E r \in Tasks :
      /\ Kind(r) = "Repeater" /\ tree.repeat[r] = -1
      /\ ret[Child(r)] = FAILURE
      /\ ret[r] = RUNNING
      /\ EndThenInit(calls, Child(r))
      /\ ~crashed

\* C27: right after an init() of a Sequence or Selector (no process() and no
\* end() of it since), its children_stack holds each of its children once,
\* in order with the first child on top, on re-activations too.
C27_StackSeededOnInit ==
    \A s \in Tasks :
      (Kind(s) \in Composites /\ opens[s] >= 1 /\ procs[s] = 0 /\ ~crashed)
        => children_stack[s] = Reversed(Kids(s))

\* C21: a HumanFollowPath over an expanded route of n tiles returns SUCCESS
\* exactly on the tick of the n-th result other than RUNNING (SUCCESS or
\* FAILURE) of its child and calls controller.halt() on that tick; on every
\* earlier tick it returns RUNNING, with the child targeted at the next tile
\* after each such result; it never returns FAILURE.
C21_FollowPathCompletes ==
    (expanded.status = "ok" /\ expanded.ret # NoCall) =>
      LET n == Len(expanded._path) IN
      /\ expanded.ret # FAILURE
      /\ expanded.ret = SUCCESS <=> (expanded.state # RUNNING /\ expanded.results = n)
      /\ expanded.halts <=> expanded.ret = SUCCESS
      /\ expanded.results < n =>
           /\ expanded.ret = RUNNING
           /\ expanded.target = expanded._path[expanded.results + 1]

\* the third result of the child, a FAILURE, has ended a route of three tiles
C21_Witness ==
    /\ expanded.status = "ok"
    /\ Len(expanded._path) = 3
    /\ expanded.results = 3
    /\ expanded.state = FAILURE
    /\ expanded.ret = SUCCESS
    /\ expanded.halts

-----------------------------------------------------------------------------
(* Properties of HumanWalkToLocation *)

\* C22: while walking to one target, a process() that resolves no direction,
\* or a direction other than the one issued before for that target, returns
\* RUNNING and calls move_in_direction zero times, so that no move command
\* differs from the one issued before for the target.
C22_NoDirectionChange ==
    (/\ walker.ret = RUNNING
     /\ \/ walker.resolved = NoDirection
        \/ (walker.before # NoDirection /\ walker.resolved # walker.before))
    => walker.moved = <<>>

\* the same, for the ticks that resolve no direction
C22_NoMoveWithoutDirection ==
    (walker.ret = RUNNING /\ walker.resolved = NoDirection) => walker.moved = <<>>

-----------------------------------------------------------------------------
(* Properties of HumanRoam.init *)

\* a route leads from tile src to node dest: both have a nearest node, and
\* dest's can be reached from src's along edges of the graph
HasRoute(src, dest) ==
    LET start_node == FindNearestNode(grid, Nodes, src, PAVEMENT)
        end_node == FindNearestNode(grid, Nodes, dest, PAVEMENT)
    IN /\ start_node # None
       /\ end_node # None
       /\ end_node \in ReachableFrom(graph, {start_node})

GoodGoalExists ==
    \E goal \in Nodes : goal # roamer.tile /\ HasRoute(roamer.tile, goal)

\* the child built by init is a HumanFollowPath over a route from the
\* current tile to a sampled node other than it
ChildOverRoute ==
    /\ expanded.status = "ok"
    /\ roamer.goal \in Nodes
    /\ roamer.goal # roamer.tile
    /\ HasRoute(roamer.tile, roamer.goal)
    /\ waypoints[1] = roamer.tile
    /\ waypoints[Len(waypoints)] = roamer.goal

\* every find_walking_path that init() sees return, for a goal that has a
\* route, returns that route: the loop ends the first time such a goal is
\* sampled
GoodGoalGivesRoute ==
    (roamer.phase = "querying" /\ pc = "done" /\ HasRoute(roamer.tile, roamer.goal))
        => route.status = "route"

\* when init() has returned, its child is a HumanFollowPath over such a route
ReturnedWithChild == roamer.phase = "returned" => ChildOverRoute

\* C23: HumanRoam.init returns whenever some node other than the current
\* tile has a route from that tile (it does not leave by an exception
\* instead), with a HumanFollowPath over such a route as its child.
C23_RoamInitReturns ==
    /\ roamer.phase = "raised" => ~GoodGoalExists
    /\ ReturnedWithChild

====
